---- MODULE Spec2Model ----
(***************************************************************************)
(* Model of kicad-plugins/horizon-board-producer-plugin.py: the plate      *)
(* derivation __create_plate_pcb_from_layer and the orchestrator produce(). *)
(* Board items are objects on a heap (references), so that duplication and  *)
(* in-place mutation are distinguishable.                                   *)
(***************************************************************************)
EXTENDS Integers, Sequences, FiniteSets, TLC

VARIABLES
  boardFile,      \* content of the source .kicad_pcb file read by LoadBoard
  heap,           \* the pcbnew objects: drawings, footprints, pads, graphics
  board,          \* produce(): the loaded source board
  layer_name,     \* argument of the current derivation call ("" outside one)
  plate_pcb,      \* the plate under construction in the current call
  platebounds,    \* local of the current call
  bottom_plate,   \* produce(): result of the first call
  top_plate,      \* produce(): result of the second call
  idx,            \* position in the list [board, bottom_plate, top_plate] if p
  pc,             \* position in produce()
  tempExists,     \* os.path.exists(temp_path)
  temp,           \* files under temp_path
  outputExists,   \* os.path.exists(output_path)
  archives,       \* zip files under output_path
  log             \* the calls made so far, in order

vars == <<boardFile, heap, board, layer_name, plate_pcb, platebounds,
          bottom_plate, top_plate, idx, pc, tempExists, temp, outputExists,
          archives, log>>

\* ---------------------------------------------------------------- bounds
\* drawings, footprints, pads and footprint graphics of the source board, altogether
MaxItems == 4

None == [none |-> TRUE]
Uninit == [uninit |-> TRUE]

\* ------------------------------------------------------- layers (pcbnew)
\* BOARD.GetLayerID: layer name -> PCB_LAYER_ID, UNDEFINED_LAYER (-1) if unknown
GetLayerID(name) ==
  CASE name = "F.Cu" -> 0
    [] name = "B.Cu" -> 31
    [] name = "B.Adhesive" -> 32
    [] name = "F.Adhesive" -> 33
    [] name = "B.Silkscreen" -> 36
    [] name = "F.Silkscreen" -> 37
    [] name = "B.Mask" -> 38
    [] name = "F.Mask" -> 39
    [] name = "Edge.Cuts" -> 44
    [] OTHER -> -1

\* PAD.UnplatedHoleMask(): the copper layers and both solder masks
UnplatedHoleMask == {GetLayerID("F.Cu"), GetLayerID("B.Cu"),
                     GetLayerID("F.Mask"), GetLayerID("B.Mask")}

\* ------------------------------------------------------- geometry
\* an EDA_RECT: [init, x, y, w, h]; an uninitialised rect has no extent
EmptyRect == [init |-> FALSE, x |-> 0, y |-> 0, w |-> 0, h |-> 0]
Rect(x, y, w, h) == [init |-> TRUE, x |-> x, y |-> y, w |-> w, h |-> h]

Min(a, b) == IF a <= b THEN a ELSE b
Max(a, b) == IF a >= b THEN a ELSE b

\* EDA_RECT.Merge
Merge(r, s) ==
  IF ~r.init THEN s
  ELSE IF ~s.init THEN r
  ELSE LET x1 == Min(r.x, s.x)
           y1 == Min(r.y, s.y)
           x2 == Max(r.x + r.w, s.x + s.w)
           y2 == Max(r.y + r.h, s.y + s.h)
       IN Rect(x1, y1, x2 - x1, y2 - y1)

\* EDA_RECT.GetArea
GetArea(r) == r.w * r.h

\* EDA_RECT.Intersects: a common area of null size is accepted
Intersects(r, s) ==
  /\ r.init
  /\ s.init
  /\ Max(r.x, s.x) <= Min(r.x + r.w, s.x + s.w)
  /\ Max(r.y, s.y) <= Min(r.y + r.h, s.y + s.h)

\* ------------------------------------------------------- reference designators
\* a designator is a sequence of characters
Digits == {"0", "1", "2", "3", "4", "5", "6", "7", "8", "9"}

IsDigits(s) == Len(s) > 0 /\ \A i \in 1..Len(s) : s[i] \in Digits

HasPrefix(s, p) == Len(s) >= Len(p) /\ SubSeq(s, 1, Len(p)) = p

DropPrefix(s, p) == SubSeq(s, Len(p) + 1, Len(s))

\* `$` also matches just before a newline that ends the string
BeforeEnd(s) ==
  IF Len(s) > 0 /\ s[Len(s)] = "\n" THEN {s, SubSeq(s, 1, Len(s) - 1)} ELSE {s}

\* re.match(r'^(H|LOGO)\d+$', s)
ReMatch(s) ==
  \E body \in BeforeEnd(s) :
    \E p \in {<<"H">>, <<"L", "O", "G", "O">>} :
      HasPrefix(body, p) /\ IsDigits(DropPrefix(body, p))

\* ------------------------------------------------------- input values
Drawing(class, layer, box) == [class |-> class, layer |-> GetLayerID(layer), box |-> box]

\* outlines on either reference layer, one of them of no area
OutlineValues ==
  { Drawing("PCB_SHAPE", "F.Adhesive", Rect(0, 0, 4, 4)),
    Drawing("PCB_SHAPE", "F.Adhesive", Rect(0, 0, 4, 0)),
    Drawing("PCB_SHAPE", "B.Adhesive", Rect(0, 0, 4, 4)) }

DrawingValues ==
  OutlineValues \cup
  { Drawing("PCB_SHAPE", "F.Silkscreen", Rect(0, 0, 4, 4)),
    Drawing("PTEXT", "F.Silkscreen", Rect(1, 1, 2, 1)),
    Drawing("PTEXT", "B.Silkscreen", Rect(1, 1, 2, 1)),
    Drawing("PTEXT", "F.Adhesive", Rect(1, 1, 2, 1)) }

Pad(shape, layers, size) ==
  [shape |-> shape, layers |-> layers, attribute |-> "SMD",
   drill_shape |-> "CIRCLE", drill_size |-> <<0, 0>>, size |-> size, pos |-> <<0, 0>>]

PadValues ==
  { Pad("CIRCLE", {GetLayerID("F.Adhesive")}, <<1, 1>>),
    Pad("OVAL", {GetLayerID("B.Adhesive")}, <<2, 1>>),
    Pad("RECT", {GetLayerID("F.Adhesive")}, <<2, 1>>),
    Pad("CIRCLE", {GetLayerID("F.Cu"), GetLayerID("F.Mask")}, <<1, 1>>) }

GraphicValues == { [layer |-> GetLayerID("F.Adhesive")], [layer |-> GetLayerID("F.Silkscreen")] }

\* a footprint box touching the corner of the outlines, and one away from them
NearBox == Rect(4, 4, 2, 2)
FarBox == Rect(6, 6, 2, 2)

\* designator and box of a footprint: mounting holes, a logo and a resistor
Placement(ref, box) == [ref |-> ref, box |-> box]

PlacementValues ==
  { Placement(<<"H", "1">>, NearBox), Placement(<<"H", "1">>, FarBox),
    Placement(<<"L", "O", "G", "O", "2">>, NearBox),
    Placement(<<"R", "1">>, NearBox), Placement(<<"R", "1">>, FarBox) }

\* the layouts of footprint lists of exactly m items: per footprint, the numbers
\* of its pads and of its graphics (the footprint itself is an item)
RECURSIVE Layouts(_)
Layouts(m) ==
  IF m = 0 THEN {<<>>}
  ELSE UNION { { <<c>> \o rest : rest \in Layouts(m - 1 - c[1] - c[2]) } :
               c \in {d \in (0..m) \X (0..m) : 1 + d[1] + d[2] <= m} }

\* the layouts of boards of at most n items
BoardLayouts(n) ==
  UNION { { [drawings |-> i[1], footprints |-> l] : l \in Layouts(i[2]) } :
          i \in {j \in (0..n) \X (0..n) : j[1] + j[2] <= n} }

RECURSIVE Sum(_, _)
Sum(layout, k) == IF layout = <<>> THEN 0 ELSE Head(layout)[k] + Sum(Tail(layout), k)

\* the footprints of a layout, given their placements, pads and graphics in order
RECURSIVE BuildFootprints(_, _, _, _)
BuildFootprints(layout, places, pads, graphics) ==
  IF layout = <<>> THEN <<>>
  ELSE LET a == Head(layout)[1]
           b == Head(layout)[2]
       IN << [ref |-> Head(places).ref, box |-> Head(places).box,
              pos |-> <<Head(places).box.x, Head(places).box.y>>,
              pads |-> [i \in 1..a |->
                          [pads[i] EXCEPT !.pos = <<Head(places).box.x, Head(places).box.y>>]],
              graphics |-> SubSeq(graphics, 1, b)] >>
          \o BuildFootprints(Tail(layout), Tail(places),
                             SubSeq(pads, a + 1, Len(pads)),
                             SubSeq(graphics, b + 1, Len(graphics)))

\* ------------------------------------------------------- the object heap
EmptyHeap == [drawings |-> <<>>, footprints |-> <<>>, pads |-> <<>>, graphics |-> <<>>]

Range(n, k) == [i \in 1..k |-> n + i]

\* a footprint object built from its file value: its pads and graphics are new objects
NewFootprint(h, v) ==
  [heap |-> [h EXCEPT !.pads = h.pads \o v.pads,
                      !.graphics = h.graphics \o v.graphics,
                      !.footprints = Append(h.footprints,
                         [ref |-> v.ref, box |-> v.box, pos |-> v.pos,
                          pads |-> Range(Len(h.pads), Len(v.pads)),
                          graphics |-> Range(Len(h.graphics), Len(v.graphics))])],
   ref |-> Len(h.footprints) + 1]

RECURSIVE LoadFootprints(_, _)
LoadFootprints(h, vs) ==
  IF vs = <<>> THEN h ELSE LoadFootprints(NewFootprint(h, Head(vs)).heap, Tail(vs))

\* pcbnew.LoadBoard
LoadBoard(file) ==
  [heap |-> LoadFootprints([EmptyHeap EXCEPT !.drawings = file.drawings], file.footprints),
   board |-> [drawings |-> Range(0, Len(file.drawings)),
              footprints |-> Range(0, Len(file.footprints)),
              file |-> <<"horizon", ".kicad_pcb">>]]

\* the value of a footprint object, as it would be written to a file
FootprintValue(h, f) ==
  [ref |-> h.footprints[f].ref, box |-> h.footprints[f].box, pos |-> h.footprints[f].pos,
   pads |-> [i \in 1..Len(h.footprints[f].pads) |-> h.pads[h.footprints[f].pads[i]]],
   graphics |-> [i \in 1..Len(h.footprints[f].graphics) |->
                   h.graphics[h.footprints[f].graphics[i]]]]

\* the value of a board object, as it would be written to a file
BoardValue(h, b) ==
  [drawings |-> [i \in 1..Len(b.drawings) |-> h.drawings[b.drawings[i]]],
   footprints |-> [i \in 1..Len(b.footprints) |-> FootprintValue(h, b.footprints[i])]]

\* ------------------------------------------------------- pcbnew item operations
\* BOARD_ITEM.IsOnLayer for a drawing or a footprint graphic: its one layer
IsOnLayer(item, layer) == item.layer = layer

\* PAD.IsOnLayer: membership in the pad's layer set
PadIsOnLayer(pad, layer) == layer \in pad.layers

\* a Duplicate that hands back the drawing itself
DuplicateShared(h, d) == [heap |-> h, ref |-> d]

\* drawing.Duplicate(): a new object with the same value
Duplicate(h, d) ==
  [heap |-> [h EXCEPT !.drawings = Append(h.drawings, h.drawings[d])],
   ref |-> Len(h.drawings) + 1]

\* new_drawing.SetLayer(layer)
SetLayer(h, d, layer) == [h EXCEPT !.drawings[d].layer = layer]

\* pcbnew.FOOTPRINT(footprint): copies the footprint with its pads and graphics
CopyFootprint(h, f) ==
  LET src == h.footprints[f]
      pads == [i \in 1..Len(src.pads) |-> h.pads[src.pads[i]]]
      graphics == [i \in 1..Len(src.graphics) |-> h.graphics[src.graphics[i]]]
  IN [heap |-> [h EXCEPT !.pads = h.pads \o pads,
                         !.graphics = h.graphics \o graphics,
                         !.footprints = Append(h.footprints,
                            [src EXCEPT !.pads = Range(Len(h.pads), Len(pads)),
                                        !.graphics = Range(Len(h.graphics), Len(graphics))])],
      ref |-> Len(h.footprints) + 1]

\* FOOTPRINT.SetPosition: moves the footprint and its pads by the difference
SetPosition(h, f, pos) ==
  LET fp == h.footprints[f]
      dx == pos[1] - fp.pos[1]
      dy == pos[2] - fp.pos[2]
      moved == {fp.pads[i] : i \in 1..Len(fp.pads)}
  IN [h EXCEPT !.footprints[f].pos = pos,
               !.footprints[f].box = [fp.box EXCEPT !.x = @ + dx, !.y = @ + dy],
               !.pads = [p \in 1..Len(h.pads) |->
                            IF p \in moved
                            THEN [h.pads[p] EXCEPT !.pos = <<@[1] + dx, @[2] + dy>>]
                            ELSE h.pads[p]]]

\* pcbnew.NewBoard(path)
NewBoard(path) == [drawings |-> <<>>, footprints |-> <<>>, file |-> path]

\* BOARD.GetBoardEdgesBoundingBox: the merged boxes of the shapes on Edge.Cuts
RECURSIVE MergeEdges(_, _, _)
MergeEdges(h, ds, area) ==
  IF ds = <<>> THEN area
  ELSE LET item == h.drawings[Head(ds)]
       IN IF item.layer = GetLayerID("Edge.Cuts") /\ item.class = "PCB_SHAPE"
          THEN MergeEdges(h, Tail(ds), Merge(area, item.box))
          ELSE MergeEdges(h, Tail(ds), area)

GetBoardEdgesBoundingBox(h, b) == MergeEdges(h, b.drawings, EmptyRect)

\* ------------------------------------------------------- file names
\* board_filename.replace('.kicad_pcb', '-' + suffix + '.kicad_pcb'), on name parts
RECURSIVE ReplaceExt(_, _)
ReplaceExt(name, suffix) ==
  IF name = <<>> THEN <<>>
  ELSE (IF Head(name) = ".kicad_pcb" THEN <<"-" \o suffix, ".kicad_pcb">> ELSE <<Head(name)>>)
       \o ReplaceExt(Tail(name), suffix)

\* os.path.splitext(board_filename)[0]
BoardName(name) ==
  IF Len(name) > 1 /\ name[Len(name)] = ".kicad_pcb" THEN SubSeq(name, 1, Len(name) - 1)
  ELSE name

\* ------------------------------------------------------- plate derivation
\* line 144: the drawing is outline geometry of the plate
IsOutlineShape(d, name) ==
  IsOnLayer(d, GetLayerID(name)) /\ d.class = "PCB_SHAPE"

\* line 147 without the test of the class
IsSilkItem(d) ==
  IsOnLayer(d, GetLayerID("F.Silkscreen")) \/ IsOnLayer(d, GetLayerID("B.Silkscreen"))

\* line 147: the drawing is silkscreen text
IsSilkText(d) ==
  /\ IsOnLayer(d, GetLayerID("F.Silkscreen")) \/ IsOnLayer(d, GetLayerID("B.Silkscreen"))
  /\ d.class = "PTEXT"

\* lines 142-148: the loop over board.GetDrawings()
RECURSIVE CopyDrawings(_, _, _, _)
CopyDrawings(h, ds, name, plate) ==
  IF ds = <<>> THEN [heap |-> h, plate |-> plate]
  ELSE LET drawing == Head(ds)
           dup == Duplicate(h, drawing)
           new_drawing == dup.ref
       IN IF IsOutlineShape(dup.heap.drawings[drawing], name)
          THEN CopyDrawings(SetLayer(dup.heap, new_drawing, GetLayerID("Edge.Cuts")),
                            Tail(ds), name,
                            [plate EXCEPT !.drawings = Append(@, new_drawing)])
          ELSE IF IsSilkText(dup.heap.drawings[drawing])
          THEN CopyDrawings(dup.heap, Tail(ds), name,
                            [plate EXCEPT !.drawings = Append(@, new_drawing)])
          ELSE CopyDrawings(dup.heap, Tail(ds), name, plate)

\* line 166 without the test of the shape
IsHolePadAnyShape(pad, name) == PadIsOnLayer(pad, GetLayerID(name))

\* line 166: the pad becomes a hole of the plate
IsHolePad(pad, name) ==
  PadIsOnLayer(pad, GetLayerID(name)) /\ pad.shape \in {"CIRCLE", "OVAL"}

\* lines 167-172 with a circular drill for every pad
ConvertPadRound(pad) ==
  [pad EXCEPT !.attribute = "NPTH",
              !.drill_shape = "CIRCLE",
              !.drill_size = pad.size,
              !.layers = UnplatedHoleMask]

\* lines 167-172
ConvertPad(pad) ==
  LET drill_shape == IF pad.shape = "CIRCLE" THEN "CIRCLE" ELSE "OBLONG"
  IN [pad EXCEPT !.attribute = "NPTH",
                 !.drill_shape = drill_shape,
                 !.drill_size = pad.size,
                 !.layers = UnplatedHoleMask,
                 !.pos = pad.pos]

\* line 176: the graphic becomes an edge cut of the plate
IsCutGraphic(graphic, name) == IsOnLayer(graphic, GetLayerID(name))

\* lines 164-181: convert or remove the pads and graphics of new_footprint
FilterFootprint(h, nf, name) ==
  LET fp == h.footprints[nf]
      pads == {fp.pads[i] : i \in 1..Len(fp.pads)}
      graphics == {fp.graphics[i] : i \in 1..Len(fp.graphics)}
      keepPad(p) == IsHolePad(h.pads[p], name)
      keepGraphic(g) == IsCutGraphic(h.graphics[g], name)
  IN [h EXCEPT
        !.pads = [p \in 1..Len(h.pads) |->
                    IF p \in pads /\ keepPad(p) THEN ConvertPad(h.pads[p]) ELSE h.pads[p]],
        !.graphics = [g \in 1..Len(h.graphics) |->
                    IF g \in graphics /\ keepGraphic(g)
                    THEN [h.graphics[g] EXCEPT !.layer = GetLayerID("Edge.Cuts")]
                    ELSE h.graphics[g]],
        !.footprints[nf].pads = SelectSeq(fp.pads, keepPad),
        !.footprints[nf].graphics = SelectSeq(fp.graphics, keepGraphic)]

\* line 161 with a pattern for mounting holes only, ^H\d+$
IsPreservedHole(h, f) ==
  HasPrefix(h.footprints[f].ref, <<"H">>) /\ IsDigits(DropPrefix(h.footprints[f].ref, <<"H">>))

\* line 161: 'H' (mounting hole) and 'LOGO' (graphics) footprints keep their items
IsPreserved(h, f) == ReMatch(h.footprints[f].ref)

\* line 182 counting the pads only
IsRetainedByPads(h, nf) == Len(h.footprints[nf].pads) > 0

\* line 182
IsRetained(h, nf) ==
  Len(h.footprints[nf].pads) > 0 \/ Len(h.footprints[nf].graphics) > 0

\* lines 157-183: the loop over board.GetFootprints()
RECURSIVE CopyFootprints(_, _, _, _, _)
CopyFootprints(h, fs, name, bounds, plate) ==
  IF fs = <<>> THEN [heap |-> h, plate |-> plate]
  ELSE LET footprint == Head(fs)
       IN IF Intersects(h.footprints[footprint].box, bounds)
          THEN LET copy == CopyFootprint(h, footprint)
                   new_footprint == copy.ref
                   placed == SetPosition(copy.heap, new_footprint,
                                         copy.heap.footprints[footprint].pos)
                   added == [plate EXCEPT !.footprints = Append(@, new_footprint)]
               IN IF IsPreserved(placed, footprint)
                  THEN CopyFootprints(placed, Tail(fs), name, bounds, added)
                  ELSE LET filtered == FilterFootprint(placed, new_footprint, name)
                       IN CopyFootprints(filtered, Tail(fs), name, bounds,
                             IF IsRetained(filtered, new_footprint) THEN added ELSE plate)
          ELSE CopyFootprints(h, Tail(fs), name, bounds, plate)

\* ------------------------------------------------------- file system
File(dir, name, run) == [dir |-> dir, name |-> name, run |-> run]

\* writing files replaces the files of the same path
Write(fs, new) ==
  {f \in fs : ~\E g \in new : g.dir = f.dir /\ g.name = f.name} \cup new

\* the layers plotted by __create_gerbers (lines 60-68)
PlotLayers == {"F.Cu", "B.Cu", "F.SilkS", "B.SilkS", "F.Mask", "B.Mask", "Edge.Cuts"}

\* the files of CreateDrillandMapFilesSet with pth_npth_single_file False
DrillFiles == {"PTH.drl", "NPTH.drl"}

\* what an earlier run of produce() on this board may have left behind
PriorTemp ==
  { File(<<"horizon">>, "F.Cu", "prior"),
    File(<<"horizon">>, "User.1", "prior"),
    File(<<"horizon", "-top-plate">>, "Edge.Cuts", "prior"),
    File(<<>>, "horizon-top-plate.kicad_pcb", "prior") }

PriorArchives ==
  { [name |-> <<"horizon", "-top-plate">>, run |-> "prior",
     files |-> {File(<<"horizon", "-top-plate">>, "Edge.Cuts", "prior")}] }

\* ------------------------------------------------------- produce()
\* line 213: [p for p in [board, bottom_plate, top_plate] if p]
IsBoard(p) == p # None
Pcbs == SelectSeq(<<board, bottom_plate, top_plate>>, IsBoard)

InitRun ==
  /\ heap = LoadBoard(boardFile).heap
  /\ board = LoadBoard(boardFile).board
  /\ layer_name = ""
  /\ plate_pcb = Uninit
  /\ platebounds = EmptyRect
  /\ bottom_plate = Uninit
  /\ top_plate = Uninit
  /\ idx = 0
  /\ log = <<>>

\* the file holds any board of at most MaxItems items over the given values
IsBoardFile(drawings, places, pads, graphics) ==
  \E layout \in BoardLayouts(MaxItems) :
    \E ds \in [1..layout.drawings -> drawings],
       fs \in [1..Len(layout.footprints) -> places],
       ps \in [1..Sum(layout.footprints, 1) -> pads],
       gs \in [1..Sum(layout.footprints, 2) -> graphics] :
      boardFile = [drawings |-> ds,
                   footprints |-> BuildFootprints(layout.footprints, fs, ps, gs)]

\* a whole run, the first one or one after an earlier run, on a board of outlines
\* and mounting holes
Init ==
  /\ IsBoardFile(OutlineValues, {Placement(<<"H", "1">>, NearBox)}, {}, {})
  /\ InitRun
  /\ pc = "prepare_temp"
  /\ tempExists \in BOOLEAN
  /\ temp = IF tempExists THEN PriorTemp ELSE {}
  /\ outputExists = tempExists
  /\ archives = IF outputExists THEN PriorArchives ELSE {}

\* lines 202-205 without the rmtree: the directory is kept as found
KeptTemp(exists, files) == files

\* lines 202-205: rmtree(temp_path) if it exists, then makedirs(temp_path)
ClearedTemp(exists, files) == IF exists THEN {} ELSE files

PrepareTemp ==
  /\ pc = "prepare_temp"
  /\ tempExists' = TRUE
  /\ temp' = ClearedTemp(tempExists, temp)
  /\ pc' = "prepare_output"
  /\ UNCHANGED <<boardFile, heap, board, layer_name, plate_pcb, platebounds,
                 bottom_plate, top_plate, idx, outputExists, archives, log>>

\* lines 207-208
PrepareOutput ==
  /\ pc = "prepare_output"
  /\ outputExists' = TRUE
  /\ pc' = "call_bottom"
  /\ UNCHANGED <<boardFile, heap, board, layer_name, plate_pcb, platebounds,
                 bottom_plate, top_plate, idx, tempExists, temp, archives, log>>

\* lines 210-211 with the arguments of the second call in both
CallArgsTop(at) == [layer |-> "F.Adhesive", suffix |-> "top-plate"]

\* lines 210-211: the arguments of the two calls
CallArgs(at) ==
  IF at = "call_bottom" THEN [layer |-> "B.Adhesive", suffix |-> "bottom-plate"]
  ELSE [layer |-> "F.Adhesive", suffix |-> "top-plate"]

\* lines 137-148: the call, the new empty plate and the loop over the drawings
DrawingPass ==
  /\ pc \in {"call_bottom", "call_top"}
  /\ layer_name' = CallArgs(pc).layer
  /\ LET r == CopyDrawings(heap, board.drawings, CallArgs(pc).layer,
                           NewBoard(ReplaceExt(board.file, CallArgs(pc).suffix)))
     IN /\ heap' = r.heap
        /\ plate_pcb' = r.plate
  /\ log' = Append(log, <<"derive", CallArgs(pc).layer>>)
  /\ pc' = "bounds"
  /\ UNCHANGED <<boardFile, board, platebounds, bottom_plate, top_plate, idx,
                 tempExists, temp, outputExists, archives>>

\* the return of the call into line 210 or 211
Return(result) ==
  /\ IF bottom_plate = Uninit
     THEN bottom_plate' = result /\ pc' = "call_top" /\ UNCHANGED <<top_plate, idx>>
     ELSE top_plate' = result /\ pc' = "gerbers" /\ idx' = 1 /\ UNCHANGED bottom_plate
  /\ layer_name' = ""
  /\ plate_pcb' = Uninit
  /\ platebounds' = EmptyRect

\* line 153 testing for an outline without geometry only
HasNoGeometry(bounds) == ~bounds.init

\* lines 150-154
HasNoBounds(bounds) == GetArea(bounds) = 0

CheckBounds ==
  /\ pc = "bounds"
  /\ LET bounds == GetBoardEdgesBoundingBox(heap, plate_pcb)
     IN IF HasNoBounds(bounds)
        THEN Return(None)
        ELSE /\ platebounds' = bounds
             /\ pc' = "footprints"
             /\ UNCHANGED <<layer_name, plate_pcb, bottom_plate, top_plate, idx>>
  /\ UNCHANGED <<boardFile, heap, board, tempExists, temp, outputExists, archives, log>>

\* the name of a board file, parts joined
RECURSIVE Join(_)
Join(name) == IF name = <<>> THEN "" ELSE Head(name) \o Join(Tail(name))

\* lines 157-187: the loop over the footprints, the save and the return
FootprintPass ==
  /\ pc = "footprints"
  /\ LET r == CopyFootprints(heap, board.footprints, layer_name, platebounds, plate_pcb)
     IN /\ heap' = r.heap
        /\ temp' = Write(temp, {File(<<>>, Join(r.plate.file), "current")})
        /\ Return(r.plate)
  /\ UNCHANGED <<boardFile, board, tempExists, outputExists, archives, log>>

\* line 218: __create_gerbers(pcb, gerber_output_path)
CreateGerbers ==
  /\ pc = "gerbers"
  /\ LET board_name == BoardName(Pcbs[idx].file)
     IN /\ temp' = Write(temp, {File(board_name, l, "current") : l \in PlotLayers})
        /\ log' = Append(log, <<"gerbers", board_name>>)
  /\ pc' = "drill"
  /\ UNCHANGED <<boardFile, heap, board, layer_name, plate_pcb, platebounds,
                 bottom_plate, top_plate, idx, tempExists, outputExists, archives>>

\* line 219: __create_drill_file(pcb, gerber_output_path)
CreateDrillFile ==
  /\ pc = "drill"
  /\ LET board_name == BoardName(Pcbs[idx].file)
     IN /\ temp' = Write(temp, {File(board_name, d, "current") : d \in DrillFiles})
        /\ log' = Append(log, <<"drill", board_name>>)
  /\ pc' = "zip"
  /\ UNCHANGED <<boardFile, heap, board, layer_name, plate_pcb, platebounds,
                 bottom_plate, top_plate, idx, tempExists, outputExists, archives>>

\* line 220 and the loop of line 213: __create_zip(archive_file_path, gerber_output_path)
CreateZip ==
  /\ pc = "zip"
  /\ LET board_name == BoardName(Pcbs[idx].file)
     IN /\ archives' = {a \in archives : a.name # board_name} \cup
                         {[name |-> board_name, run |-> "current",
                           files |-> {f \in temp : f.dir = board_name}]}
        /\ log' = Append(log, <<"zip", board_name>>)
  /\ IF idx < Len(Pcbs)
     THEN idx' = idx + 1 /\ pc' = "gerbers"
     ELSE idx' = idx /\ pc' = "done"
  /\ UNCHANGED <<boardFile, heap, board, layer_name, plate_pcb, platebounds,
                 bottom_plate, top_plate, tempExists, temp, outputExists>>

\* what a failing rmtree/makedirs of lines 202-205 can leave: any part of the files
\* not yet removed, or no directory at all
ClearFailures(exists, files) ==
  {[exists |-> exists, files |-> rest] : rest \in SUBSET files}
    \cup {[exists |-> FALSE, files |-> {}]}

\* an exception raised by a step that touches the file system: produce() has no
\* handler, so it propagates out of produce(). Only the files a failing clearing
\* leaves are modelled; the files a failing plot or drill step wrote are not.
RaisePoints == {"prepare_temp", "prepare_output", "footprints", "gerbers", "drill", "zip"}

Raise ==
  /\ pc \in RaisePoints
  /\ pc' = "raised"
  /\ \E left \in IF pc = "prepare_temp" THEN ClearFailures(tempExists, temp)
                  ELSE {[exists |-> tempExists, files |-> temp]} :
       /\ tempExists' = left.exists
       /\ temp' = left.files
  /\ UNCHANGED <<boardFile, heap, board, layer_name, plate_pcb, platebounds,
                 bottom_plate, top_plate, idx, outputExists, archives, log>>

Next ==
  \/ PrepareTemp
  \/ PrepareOutput
  \/ DrawingPass
  \/ CheckBounds
  \/ FootprintPass
  \/ CreateGerbers
  \/ CreateDrillFile
  \/ CreateZip
  \/ Raise

Spec == Init /\ [][Next]_vars

\* the two derivation calls of produce() alone, on every source board
InitPlate ==
  /\ IsBoardFile(DrawingValues, PlacementValues, PadValues, GraphicValues)
  /\ InitRun
  /\ pc = "call_bottom"
  /\ tempExists = TRUE
  /\ temp = {}
  /\ outputExists = TRUE
  /\ archives = {}

NextPlate ==
  \/ DrawingPass
  \/ CheckBounds
  \/ FootprintPass

SpecPlate == InitPlate /\ [][NextPlate]_vars

\* ======================================================= properties
\* the calls that have returned, each with its reference layer and its result
Returned ==
  (IF bottom_plate # Uninit THEN {[layer |-> "B.Adhesive", plate |-> bottom_plate]} ELSE {})
  \cup (IF top_plate # Uninit THEN {[layer |-> "F.Adhesive", plate |-> top_plate]} ELSE {})

ReturnedPlates == {r \in Returned : r.plate # None}

Least(S) == CHOOSE x \in S : \A y \in S : x <= y
Greatest(S) == CHOOSE x \in S : \A y \in S : x >= y

\* the boxes of the source file's shape drawings on a layer, and the box around them
OutlineBoxes(layer) ==
  {boardFile.drawings[i].box : i \in {j \in DOMAIN boardFile.drawings :
      /\ boardFile.drawings[j].class = "PCB_SHAPE"
      /\ boardFile.drawings[j].layer = GetLayerID(layer)}}

OutlineRect(layer) ==
  LET boxes == OutlineBoxes(layer)
      left == Least({b.x : b \in boxes})
      top == Least({b.y : b \in boxes})
      right == Greatest({b.x + b.w : b \in boxes})
      bottom == Greatest({b.y + b.h : b \in boxes})
  IN IF boxes = {} THEN EmptyRect ELSE Rect(left, top, right - left, bottom - top)

OutlineArea(layer) == OutlineRect(layer).w * OutlineRect(layer).h

SeqRange(q) == {q[i] : i \in DOMAIN q}

\* the footprints and pads of a plate, as values
PlateFootprints(plate) ==
  [j \in DOMAIN plate.footprints |-> FootprintValue(heap, plate.footprints[j])]

OrdinaryFootprints(plate) == {f \in SeqRange(PlateFootprints(plate)) : ~ReMatch(f.ref)}

\* a pad or graphic of the source file that lies on the reference layer
IsSourceHole(pad, layer) == GetLayerID(layer) \in pad.layers /\ pad.shape \in {"CIRCLE", "OVAL"}
IsSourceCut(graphic, layer) == graphic.layer = GetLayerID(layer)
SourceHoles(sf, layer) == SelectSeq(sf.pads, LAMBDA p : IsSourceHole(p, layer))
SourceCuts(sf, layer) == SelectSeq(sf.graphics, LAMBDA g : IsSourceCut(g, layer))

\* C1: a call whose reference layer holds no outline area in the source (no shape
\* drawing on it, or shapes whose box has no area) returns None
C1_NoOutlineNoPlate ==
  \A r \in Returned : OutlineArea(r.layer) = 0 => r.plate = None

C1_Witness ==
  /\ top_plate = None
  /\ OutlineBoxes("F.Adhesive") # {}
  /\ bottom_plate \notin {None, Uninit}

\* C2 as stated: every pad of every footprint of a returned plate is NPTH with a
\* drill shape matching its pad shape
C2_AllPadsUnplated ==
  \A r \in ReturnedPlates : \A f \in SeqRange(PlateFootprints(r.plate)) :
    \A pad \in SeqRange(f.pads) :
      /\ pad.attribute = "NPTH"
      /\ pad.shape = "CIRCLE" => pad.drill_shape = "CIRCLE"
      /\ pad.shape = "OVAL" => pad.drill_shape = "OBLONG"

\* C2 amended: every pad of every ordinary footprint (designator not matching
\* ^(H|LOGO)\d+$) of a returned plate is NPTH, and its drill has the shape and the size
\* of a source pad of that footprint: circular for a circle, oblong for an oval
C2_OrdinaryPadsUnplated ==
  \A r \in ReturnedPlates : \A f \in OrdinaryFootprints(r.plate) :
    \A pad \in SeqRange(f.pads) :
      /\ pad.attribute = "NPTH"
      /\ pad.drill_shape = (IF pad.shape = "CIRCLE" THEN "CIRCLE" ELSE "OBLONG")
      /\ \E sf \in SeqRange(boardFile.footprints) : \E sp \in SeqRange(sf.pads) :
           /\ sf.ref = f.ref
           /\ sp.shape = pad.shape
           /\ sp.size = pad.drill_size

C2_Witness ==
  \E r \in ReturnedPlates : \E f \in OrdinaryFootprints(r.plate) :
    \E pad \in SeqRange(f.pads) : pad.shape = "OVAL" /\ pad.drill_shape = "OBLONG"

\* C3: a source footprint named H<digits> or LOGO<digits> whose box intersects the
\* outline box has an equal copy on the returned plate: same position, pads, graphics
C3_PreservedWhole ==
  \A r \in ReturnedPlates : \A sf \in SeqRange(boardFile.footprints) :
    (ReMatch(sf.ref) /\ Intersects(sf.box, OutlineRect(r.layer)))
      => \E f \in SeqRange(PlateFootprints(r.plate)) : f = sf

C3_Witness ==
  \E r \in ReturnedPlates : \E f \in SeqRange(PlateFootprints(r.plate)) :
    /\ f.ref = <<"L", "O", "G", "O", "2">>
    /\ Len(f.pads) = 1
    /\ Len(f.graphics) = 1
    /\ f.pads[1].attribute = "SMD"

\* C4: on a returned plate an ordinary footprint holds only unplated holes (NPTH, the
\* unplated-hole layer set, circle or oval) and edge cuts (graphics on Edge.Cuts), no
\* more of either than its source footprint has on the reference layer
C4_OnlyHolesAndCuts ==
  \A r \in ReturnedPlates : \A f \in OrdinaryFootprints(r.plate) :
    /\ \A pad \in SeqRange(f.pads) :
         /\ pad.attribute = "NPTH"
         /\ pad.layers = UnplatedHoleMask
         /\ pad.shape \in {"CIRCLE", "OVAL"}
    /\ \A graphic \in SeqRange(f.graphics) : graphic.layer = GetLayerID("Edge.Cuts")
    /\ \E sf \in SeqRange(boardFile.footprints) :
         /\ sf.ref = f.ref
         /\ sf.pos = f.pos
         /\ [i \in DOMAIN f.pads |-> f.pads[i].shape]
              = [i \in DOMAIN SourceHoles(sf, r.layer) |-> SourceHoles(sf, r.layer)[i].shape]
         /\ Len(f.graphics) = Len(SourceCuts(sf, r.layer))

C4_Witness ==
  \E r \in ReturnedPlates : \E f \in OrdinaryFootprints(r.plate) :
    /\ Len(f.pads) = 1
    /\ Len(f.graphics) = 1
    /\ \E sf \in SeqRange(boardFile.footprints) : Len(sf.pads) = 1 /\ Len(sf.graphics) = 1

\* C5: the source board is as it was loaded (same items in the same order, same
\* values), and no item of a plate is an item of the source board
C5_SourceUnchanged ==
  /\ board = LoadBoard(boardFile).board
  /\ BoardValue(heap, board) = boardFile
  /\ \A r \in ReturnedPlates \cup (IF plate_pcb # Uninit THEN {[plate |-> plate_pcb]} ELSE {}) :
       /\ SeqRange(r.plate.drawings) \cap SeqRange(board.drawings) = {}
       /\ SeqRange(r.plate.footprints) \cap SeqRange(board.footprints) = {}
       /\ \A f \in SeqRange(r.plate.footprints) : \A sf \in SeqRange(board.footprints) :
            /\ SeqRange(heap.footprints[f].pads) \cap SeqRange(heap.footprints[sf].pads) = {}
            /\ SeqRange(heap.footprints[f].graphics)
                 \cap SeqRange(heap.footprints[sf].graphics) = {}

C5_Witness ==
  /\ bottom_plate # Uninit
  /\ top_plate \notin {None, Uninit}
  /\ \E f \in OrdinaryFootprints(top_plate) : \E pad \in SeqRange(f.pads) :
       pad.attribute = "NPTH"
  /\ \E d \in SeqRange(top_plate.drawings) : heap.drawings[d].layer = GetLayerID("Edge.Cuts")

\* C9: the plate after the drawing pass holds, in source order, the source's shapes on
\* the reference layer, moved to Edge.Cuts, and its silkscreen texts, unchanged
IsRemapped(d, layer) == d.class = "PCB_SHAPE" /\ d.layer = GetLayerID(layer)
IsKept(d) ==
  d.class = "PTEXT" /\ d.layer \in {GetLayerID("F.Silkscreen"), GetLayerID("B.Silkscreen")}

ExpectedDrawings(layer) ==
  LET chosen == SelectSeq(boardFile.drawings, LAMBDA d : IsRemapped(d, layer) \/ IsKept(d))
  IN [i \in DOMAIN chosen |->
        IF IsRemapped(chosen[i], layer)
        THEN [chosen[i] EXCEPT !.layer = GetLayerID("Edge.Cuts")]
        ELSE chosen[i]]

PlateDrawings(plate) == [i \in DOMAIN plate.drawings |-> heap.drawings[plate.drawings[i]]]

ExpectedFootprint(sf, layer) ==
  IF ReMatch(sf.ref) THEN sf
  ELSE [sf EXCEPT !.pads = SourceHoles(sf, layer), !.graphics = SourceCuts(sf, layer)]

IsExpected(sf, layer) ==
  /\ Intersects(sf.box, OutlineRect(layer))
  /\ \/ ReMatch(sf.ref)
     \/ Len(ExpectedFootprint(sf, layer).pads) > 0
     \/ Len(ExpectedFootprint(sf, layer).graphics) > 0

Summary(f) == <<f.ref, f.pos, Len(f.pads), Len(f.graphics)>>

ExpectedFootprints(layer) ==
  LET chosen == SelectSeq(boardFile.footprints, LAMBDA sf : IsExpected(sf, layer))
  IN [i \in DOMAIN chosen |-> Summary(ExpectedFootprint(chosen[i], layer))]

C10_FootprintsOfPlate ==
  \A r \in ReturnedPlates :
    [j \in DOMAIN r.plate.footprints |-> Summary(PlateFootprints(r.plate)[j])]
      = ExpectedFootprints(r.layer)

C10_Witness ==
  /\ top_plate \notin {None, Uninit}
  /\ Len(top_plate.footprints) = 1
  /\ Len(PlateFootprints(top_plate)[1].pads) = 1
  /\ PlateFootprints(top_plate)[1].pads[1].attribute = "NPTH"
  /\ \E sf \in SeqRange(boardFile.footprints) :
       /\ ~ReMatch(sf.ref)
       /\ Len(sf.pads) = 2
       /\ sf.pads[1].shape = "CIRCLE" /\ GetLayerID("F.Adhesive") \in sf.pads[1].layers
       /\ GetLayerID("F.Cu") \in sf.pads[2].layers

\* the boards of the list of line 213, and the one whose step raised
ListedBoards == {board, bottom_plate, top_plate} \ {None, Uninit}
FailedBoards == IF pc = "raised" /\ idx >= 1 THEN {Pcbs[idx]} ELSE {}
IsArchived(p) == \E a \in archives : a.name = BoardName(p.file) /\ a.run = "current"

\* C6: after a failure in a derivation or in an artifact step of one board, every
\* other board of the run has its archive
C6_FailureIsolated ==
  (pc = "raised" /\ (idx >= 1 \/ layer_name # ""))
    => \A p \in ListedBoards \ FailedBoards : IsArchived(p)

\* C7: the calls start with the derivation for B.Adhesive, then the one for
\* F.Adhesive; artifact steps come after both and only for the source board and the
\* plates returned; a complete run makes gerbers, drill file and archive once per such
\* board, in list order, and so 1 + (number of plates) archives
Artifacts(name) == << <<"gerbers", name>>, <<"drill", name>>, <<"zip", name>> >>

ExpectedLog ==
  << <<"derive", "B.Adhesive">>, <<"derive", "F.Adhesive">> >>
    \o Artifacts(<<"horizon">>)
    \o (IF bottom_plate # None THEN Artifacts(<<"horizon", "-bottom-plate">>) ELSE <<>>)
    \o (IF top_plate # None THEN Artifacts(<<"horizon", "-top-plate">>) ELSE <<>>)

C7_RunOrder ==
  /\ Len(log) >= 1 => log[1] = <<"derive", "B.Adhesive">>
  /\ Len(log) >= 2 => log[2] = <<"derive", "F.Adhesive">>
  /\ \A i \in DOMAIN log : i > 2 =>
       /\ bottom_plate # Uninit /\ top_plate # Uninit
       /\ log[i] = ExpectedLog[i]
  /\ pc = "done" =>
       /\ log = ExpectedLog
       /\ Cardinality({a \in archives : a.run = "current"}) = 1 + Cardinality(ReturnedPlates)

C7_Witness ==
  /\ pc = "done"
  /\ bottom_plate = None
  /\ top_plate # None
  /\ Len(log) = 8

\* C8 as stated: no file of an earlier run is under the staging directory once the
\* first derivation has started, none is in an archive of this run, and none is left
\* when produce() exits, normally or by a failure
C8_StagingCleanOnEveryExit ==
  /\ log # <<>> => \A f \in temp : f.run = "current"
  /\ \A a \in archives : a.run = "current" => \A f \in a.files : f.run = "current"
  /\ pc \in {"done", "raised"} => \A f \in temp : f.run = "current"

\* C8 amended: the staging directory exists and is empty before the first derivation;
\* from then on it holds files of this run only, and so does every archive of this
\* run; it is not cleaned when the run completes, every board's files stay in it
C8_StagingClearedAtStart ==
  /\ pc \in {"prepare_output", "call_bottom"} => tempExists /\ temp = {}
  /\ log # <<>> => tempExists /\ \A f \in temp : f.run = "current"
  /\ \A a \in archives : a.run = "current" => \A f \in a.files : f.run = "current"
  /\ pc = "done" =>
       \A p \in ListedBoards : \E f \in temp : f.dir = BoardName(p.file) /\ f.run = "current"

C8_Witness ==
  /\ pc = "done"
  /\ \E a \in archives : a.run = "prior"
  /\ \E a \in archives : a.name = <<"horizon">> /\ Cardinality(a.files) = 9

====
